---- MODULE Spec2Model ----
(***************************************************************************)
(* Coupon / promotion endpoints of promotions/views.py as a state machine. *)
(*                                                                         *)
(* State: the User, Coupon, Promotion and UserCoupon tables, the last HTTP *)
(* response, and (for the interleaved specification) the position of each  *)
(* in-flight request between its check and its write.                      *)
(*                                                                         *)
(*   Spec        every handler runs to completion, one request at a time   *)
(*   SpecStable  as Spec, but no user's role or VIP flag ever changes      *)
(*   SpecConc    create-coupon and claim-coupon run as check / write       *)
(*               steps that interleave between requests                    *)
(***************************************************************************)
EXTENDS Naturals, Sequences, FiniteSets, Bags

VARIABLES users, coupons, promotions, userCoupons, resp, pc

vars == <<users, coupons, promotions, userCoupons, resp, pc>>

db == <<coupons, promotions, userCoupons>>

----------------------------------------------------------------------------
(* Bounds of the model *)

\* rows the Coupon, Promotion and UserCoupon tables may hold together
MaxRows == 3

----------------------------------------------------------------------------
(* Identities *)

Users == {"u1", "u2"}

\* a request.user_uuid that matches no User row
NoUser == "u0"

\* token_required_cbv hands the views the uuid of an authenticated user: the
\* requests of the model are those of users who have a row.  (The branches
\* for a missing row are kept in the handlers as the code has them.)
Callers == Users

Restaurants == {"r1", "r2"}

\* user.restaurant is None
NoRestaurant == "none"

\* "user" stands for every role other than merchant and vip_merchant
Roles == {"user", "merchant", "vip_merchant"}

MerchantRoles == {"merchant", "vip_merchant"}

Procs == {"p1", "p2"}

\* role_display of the limit message: 'VIP 商家' and '一般商家'
LabelVip == "VIP_shangjia"

LabelGeneral == "yiban_shangjia"

\* error strings of PromotionCreateView
ErrRoleForbidden == "account_may_not_create_promotions"

ErrNoRestaurant == "account_has_no_restaurant"

----------------------------------------------------------------------------
(* Storage layer assumptions (users/models.py, promotions/models.py) *)

\* UserCoupon carries no uniqueness constraint on (user, coupon)
UserCouponUniqueTogether == FALSE

\* Coupon.restaurant is a NOT NULL foreign key
CouponRestaurantNullable == FALSE

----------------------------------------------------------------------------
(* Queries *)

CouponExists(c) == c \in 1 .. Len(coupons)

PromotionExists(p) == p \in 1 .. Len(promotions)

\* Coupon.objects.filter(restaurant=r, is_archived=False)
ActiveCoupons(r) ==
    {i \in 1 .. Len(coupons) :
        coupons[i].restaurant = r /\ ~coupons[i].is_archived}

\* restaurant.promotions.filter(is_archived=False)
ActivePromotions(r) ==
    {i \in 1 .. Len(promotions) :
        promotions[i].restaurant = r /\ ~promotions[i].is_archived}

UserCouponRow(u, c) == [user |-> u, coupon |-> c, is_used |-> FALSE]

\* UserCoupon.objects.filter(user=u, coupon=c).count()
ClaimRows(u, c) == CopiesIn(UserCouponRow(u, c), userCoupons)

\* UserCoupon.objects.filter(coupon=c).count()
TotalClaimed(c) ==
    BagCardinality([row \in {x \in BagToSet(userCoupons) : x.coupon = c}
                       |-> userCoupons[row]])

\* UserCoupon.objects.filter(coupon=c, is_used=True).count()
TotalUsed(c) ==
    BagCardinality([row \in {x \in BagToSet(userCoupons) :
                                 x.coupon = c /\ x.is_used}
                       |-> userCoupons[row]])

\* the claimants listed by UserCouponUsageSerializer(user_coupons, many=True)
Usages(c) == {row.user : row \in {x \in BagToSet(userCoupons) : x.coupon = c}}

\* uuids a request may name: every stored coupon, and one that matches no row
CouponIds == 1 .. (Len(coupons) + 1)

\* uuids a request may name: every stored promotion, and one that matches no row
PromotionIds == 1 .. (Len(promotions) + 1)

\* rows stored in the three tables
RowCount == Len(coupons) + Len(promotions) + BagCardinality(userCoupons)

----------------------------------------------------------------------------
(* Responses *)

Response(op, caller, target, status, body) ==
    [op |-> op, caller |-> caller, target |-> target,
     status |-> status, body |-> body]

SuccessFalse == [success |-> FALSE]

SuccessTrue == [success |-> TRUE]

\* get_object_or_404 raising Http404
NotFound == [detail |-> "not_found"]

\* an unhandled exception turned into a response by the framework
ServerError == [detail |-> "server_error"]

NoResponse == Response("none", NoUser, 0, 0, [detail |-> "none"])

Idle == [at |-> "idle"]

----------------------------------------------------------------------------
(* users.utils decorators *)

\* check_merchant_role: lets only merchant and vip_merchant callers through
CheckMerchantRole(user) == user.role \in MerchantRoles

\* check_and_downgrade_vip: a VIP whose latest subscription has ended loses
\* the VIP flag and the vip_merchant role
CheckAndDowngradeVip(user, subActive) ==
    IF subActive
    THEN user
    ELSE [user EXCEPT !.is_vip = FALSE,
                      !.role = IF @ = "vip_merchant" THEN "merchant" ELSE @]

----------------------------------------------------------------------------
(* CreateCouponView.post *)

\* variant: both roles are held to the vip_merchant count
CouponLimitReached_OneBranch(user) ==
    /\ user.role \in MerchantRoles
    /\ Cardinality(ActiveCoupons(user.restaurant)) >= 3

\* variant: the merchant branch lets a second coupon through
CouponLimitReached_OffByOne(user) ==
    \/ /\ user.role = "merchant"
       /\ Cardinality(ActiveCoupons(user.restaurant)) > 1
    \/ /\ user.role = "vip_merchant"
       /\ Cardinality(ActiveCoupons(user.restaurant)) >= 3

\* the merchant branch (has_coupon) and the vip_merchant branch (count >= 3)
CouponLimitReached(user) ==
    \/ /\ user.role = "merchant"
       /\ ActiveCoupons(user.restaurant) # {}
    \/ /\ user.role = "vip_merchant"
       /\ Cardinality(ActiveCoupons(user.restaurant)) >= 3

\* the checks that precede the serializer: the response of an early return,
\* or passed = TRUE
CreateCouponCheck(caller) ==
    IF caller \notin Users
    THEN [passed |-> FALSE,
          resp |-> Response("create_coupon", caller, 0, 401, SuccessFalse)]
    ELSE IF users[caller].role \notin MerchantRoles
    THEN [passed |-> FALSE,
          resp |-> Response("create_coupon", caller, 0, 403, SuccessFalse)]
    ELSE IF CouponLimitReached(users[caller])
    THEN [passed |-> FALSE,
          resp |-> Response("create_coupon", caller, 0, 403, SuccessFalse)]
    ELSE [passed |-> TRUE, resp |-> NoResponse]

\* serializer.is_valid(), serializer.save(restaurant=user.restaurant)
CreateCouponSave(caller, valid) ==
    LET r == users[caller].restaurant
    IN  IF ~valid
        THEN /\ resp' = Response("create_coupon", caller, 0, 400, SuccessFalse)
             /\ UNCHANGED coupons
        ELSE IF r = NoRestaurant /\ ~CouponRestaurantNullable
        THEN /\ resp' = Response("create_coupon", caller, 0, 500, ServerError)
             /\ UNCHANGED coupons
        ELSE /\ RowCount < MaxRows
             /\ coupons' = Append(coupons,
                                  [restaurant |-> r, is_archived |-> FALSE])
             /\ resp' = Response("create_coupon", caller, 0, 201,
                                 [uuid |-> Len(coupons) + 1])

CreateCoupon(caller, valid) ==
    /\ LET chk == CreateCouponCheck(caller)
       IN  IF chk.passed
           THEN CreateCouponSave(caller, valid)
           ELSE /\ resp' = chk.resp
                /\ UNCHANGED coupons
    /\ UNCHANGED <<users, promotions, userCoupons, pc>>

\* the request up to the count check; a request that passes waits to write
CreateCouponBegin(p, caller) ==
    /\ pc[p] = Idle
    /\ LET chk == CreateCouponCheck(caller)
       IN  IF chk.passed
           THEN /\ pc' = [pc EXCEPT ![p] = [at |-> "create_save",
                                            caller |-> caller]]
                /\ UNCHANGED resp
           ELSE /\ resp' = chk.resp
                /\ UNCHANGED pc
    /\ UNCHANGED <<users, coupons, promotions, userCoupons>>

\* valid: what serializer.is_valid() answers for the request's data
CreateCouponEnd(p, valid) ==
    /\ pc[p].at = "create_save"
    /\ CreateCouponSave(pc[p].caller, valid)
    /\ pc' = [pc EXCEPT ![p] = Idle]
    /\ UNCHANGED <<users, promotions, userCoupons>>

----------------------------------------------------------------------------
(* ClaimCouponView.post *)

\* variant: the lookup without is_archived=False
ClaimLookupCoupon_AnyState(c) == CouponExists(c)

\* get_object_or_404(Coupon, uuid=uuid, is_archived=False)
ClaimLookupCoupon(c) == CouponExists(c) /\ ~coupons[c].is_archived

\* variant: the existence check without user=user
ClaimAlreadyExists_AnyUser(u, c) == TotalClaimed(c) > 0

\* UserCoupon.objects.filter(user=user, coupon=coupon).exists()
ClaimAlreadyExists(u, c) == ClaimRows(u, c) > 0

ClaimCheck(caller, c) ==
    IF caller \notin Users
    THEN [passed |-> FALSE,
          resp |-> Response("claim", caller, c, 404, NotFound)]
    ELSE IF ~ClaimLookupCoupon(c)
    THEN [passed |-> FALSE,
          resp |-> Response("claim", caller, c, 404, NotFound)]
    ELSE IF ClaimAlreadyExists(caller, c)
    THEN [passed |-> FALSE,
          resp |-> Response("claim", caller, c, 200, SuccessFalse)]
    ELSE [passed |-> TRUE, resp |-> NoResponse]

\* UserCoupon.objects.create(user=user, coupon=coupon)
ClaimInsert(caller, c) ==
    IF UserCouponUniqueTogether /\ ClaimRows(caller, c) > 0
    THEN /\ resp' = Response("claim", caller, c, 500, ServerError)
         /\ UNCHANGED userCoupons
    ELSE /\ RowCount < MaxRows
         /\ userCoupons' = userCoupons (+) SetToBag({UserCouponRow(caller, c)})
         /\ resp' = Response("claim", caller, c, 201, SuccessTrue)

ClaimCoupon(caller, c) ==
    /\ LET chk == ClaimCheck(caller, c)
       IN  IF chk.passed
           THEN ClaimInsert(caller, c)
           ELSE /\ resp' = chk.resp
                /\ UNCHANGED userCoupons
    /\ UNCHANGED <<users, coupons, promotions, pc>>

ClaimCouponBegin(p, caller, c) ==
    /\ pc[p] = Idle
    /\ LET chk == ClaimCheck(caller, c)
       IN  IF chk.passed
           THEN /\ pc' = [pc EXCEPT ![p] = [at |-> "claim_insert",
                                            caller |-> caller,
                                            coupon |-> c]]
                /\ UNCHANGED resp
           ELSE /\ resp' = chk.resp
                /\ UNCHANGED pc
    /\ UNCHANGED <<users, coupons, promotions, userCoupons>>

ClaimCouponEnd(p) ==
    /\ pc[p].at = "claim_insert"
    /\ ClaimInsert(pc[p].caller, pc[p].coupon)
    /\ pc' = [pc EXCEPT ![p] = Idle]
    /\ UNCHANGED <<users, coupons, promotions>>

----------------------------------------------------------------------------
(* PromotionCreateView.post *)

\* limit = 3 if user.role == 'vip_merchant' or user.is_vip else 1
PromotionLimit(user) ==
    IF user.role = "vip_merchant" \/ user.is_vip THEN 3 ELSE 1

\* role_display = 'VIP 商家' if user.is_vip else '一般商家'
RoleDisplay(user) == IF user.is_vip THEN LabelVip ELSE LabelGeneral

\* f'{role_display} 最多只能建立 {limit} 則動態': the label and the number it embeds
LimitMessage(user) ==
    [error |-> "limit",
     role_display |-> RoleDisplay(user),
     limit |-> PromotionLimit(user)]

\* promotion_count >= limit
PromotionLimitReached(user) ==
    Cardinality(ActivePromotions(user.restaurant)) >= PromotionLimit(user)

CreatePromotion(caller, valid) ==
    /\ IF caller \notin Users
       THEN /\ resp' = Response("create_promotion", caller, 0, 404, NotFound)
            /\ UNCHANGED promotions
       ELSE IF users[caller].role \notin MerchantRoles
       THEN /\ resp' = Response("create_promotion", caller, 0, 403,
                                [error |-> ErrRoleForbidden])
            /\ UNCHANGED promotions
       ELSE IF users[caller].restaurant = NoRestaurant
       THEN /\ resp' = Response("create_promotion", caller, 0, 403,
                                [error |-> ErrNoRestaurant])
            /\ UNCHANGED promotions
       ELSE IF PromotionLimitReached(users[caller])
       THEN /\ resp' = Response("create_promotion", caller, 0, 400,
                                LimitMessage(users[caller]))
            /\ UNCHANGED promotions
       ELSE IF valid
       THEN /\ RowCount < MaxRows
            /\ promotions' = Append(promotions,
                                    [restaurant |-> users[caller].restaurant,
                                     is_archived |-> FALSE])
            /\ resp' = Response("create_promotion", caller, 0, 201,
                                [uuid |-> Len(promotions) + 1])
       ELSE /\ resp' = Response("create_promotion", caller, 0, 400, SuccessFalse)
            /\ UNCHANGED promotions
    /\ UNCHANGED <<users, coupons, userCoupons, pc>>

----------------------------------------------------------------------------
(* MerchantView.get *)

\* max_count = 3 if user.role == 'vip_merchant' else 1
DashboardMaxCount(user) == IF user.role = "vip_merchant" THEN 3 ELSE 1

\* merchant_status of the dashboard payload
MerchantStatus(user, subActive) ==
    [role |-> user.role,
     is_coupon_limit_reached |->
         Cardinality(ActiveCoupons(user.restaurant)) >= DashboardMaxCount(user),
     is_promotion_limit_reached |->
         Cardinality(ActivePromotions(user.restaurant)) >= DashboardMaxCount(user),
     vip_expiry |-> IF subActive THEN "ended_at" ELSE "null",
     restaurant |-> user.restaurant,
     promotions |-> ActivePromotions(user.restaurant),
     coupons |-> ActiveCoupons(user.restaurant)]

\* subActive: the latest subscription's ended_at is today or later
Dashboard(caller, subActive) ==
    /\ IF caller \notin Users
       THEN /\ resp' = Response("dashboard", caller, 0, 404, NotFound)
            /\ UNCHANGED users
       ELSE IF ~CheckMerchantRole(users[caller])
       THEN /\ resp' = Response("dashboard", caller, 0, 403, SuccessFalse)
            /\ UNCHANGED users
       ELSE LET user == CheckAndDowngradeVip(users[caller], subActive)
            IN  /\ users' = [users EXCEPT ![caller] = user]
                /\ resp' = IF user.restaurant = NoRestaurant
                           THEN Response("dashboard", caller, 0, 400, SuccessFalse)
                           ELSE Response("dashboard", caller, 0, 200,
                                         MerchantStatus(user, subActive))
    /\ UNCHANGED <<coupons, promotions, userCoupons, pc>>

----------------------------------------------------------------------------
(* CouponUsageView.get *)

CouponUsage(caller, c) ==
    /\ resp' = IF caller \notin Users \/ ~CouponExists(c)
               THEN Response("coupon_usage", caller, c, 404, NotFound)
               ELSE IF users[caller].restaurant # coupons[c].restaurant
               THEN Response("coupon_usage", caller, c, 403, SuccessFalse)
               ELSE Response("coupon_usage", caller, c, 200,
                             [usages |-> Usages(c)])
    /\ UNCHANGED <<users, coupons, promotions, userCoupons, pc>>

----------------------------------------------------------------------------
(* CouponDetailView *)

\* get_object_or_404(Coupon, uuid=uuid, is_archived=False)
DetailLookupCoupon(c) == CouponExists(c) /\ ~coupons[c].is_archived

CouponDetail(caller, c) ==
    /\ resp' = IF caller \notin Users
               THEN Response("coupon_detail", caller, c, 404, NotFound)
               ELSE IF ~CheckMerchantRole(users[caller])
               THEN Response("coupon_detail", caller, c, 403, SuccessFalse)
               ELSE IF ~DetailLookupCoupon(c)
               THEN Response("coupon_detail", caller, c, 404, NotFound)
               ELSE IF users[caller].restaurant # coupons[c].restaurant
               THEN Response("coupon_detail", caller, c, 403, SuccessFalse)
               ELSE Response("coupon_detail", caller, c, 200,
                             [total_claimed |-> TotalClaimed(c),
                              total_used |-> TotalUsed(c)])
    /\ UNCHANGED <<users, coupons, promotions, userCoupons, pc>>

\* variant: the lookup without restaurant=restaurant
ArchiveLookupCoupon_Unscoped(restaurant, c) == CouponExists(c)

\* get_object_or_404(Coupon, uuid=uuid, restaurant=restaurant)
ArchiveLookupCoupon(restaurant, c) ==
    CouponExists(c) /\ coupons[c].restaurant = restaurant

\* variant: the update reaches every coupon of the restaurant
ArchivedCoupon_WholeRestaurant(c) ==
    [i \in 1 .. Len(coupons) |->
        IF coupons[i].restaurant = coupons[c].restaurant
        THEN [coupons[i] EXCEPT !.is_archived = TRUE]
        ELSE coupons[i]]

\* coupon.is_archived = True; coupon.save()
ArchivedCoupon(c) == [coupons EXCEPT ![c].is_archived = TRUE]

ArchiveCoupon(caller, c) ==
    /\ IF caller \notin Users
       THEN /\ resp' = Response("archive_coupon", caller, c, 404, NotFound)
            /\ UNCHANGED coupons
       ELSE IF users[caller].role \notin MerchantRoles
       THEN /\ resp' = Response("archive_coupon", caller, c, 403, SuccessFalse)
            /\ UNCHANGED coupons
       ELSE IF users[caller].restaurant = NoRestaurant
       THEN /\ resp' = Response("archive_coupon", caller, c, 400, SuccessFalse)
            /\ UNCHANGED coupons
       ELSE IF ~ArchiveLookupCoupon(users[caller].restaurant, c)
       THEN /\ resp' = Response("archive_coupon", caller, c, 404, NotFound)
            /\ UNCHANGED coupons
       ELSE /\ coupons' = ArchivedCoupon(c)
            /\ resp' = Response("archive_coupon", caller, c, 200, SuccessTrue)
    /\ UNCHANGED <<users, promotions, userCoupons, pc>>

----------------------------------------------------------------------------
(* PromotionDetailView *)

\* get_object_or_404(Promotion, uuid=uuid, is_archived=False)
DetailLookupPromotion(p) == PromotionExists(p) /\ ~promotions[p].is_archived

PromotionDetail(caller, p) ==
    /\ resp' = IF caller \notin Users \/ ~DetailLookupPromotion(p)
               THEN Response("promotion_detail", caller, p, 404, NotFound)
               ELSE IF users[caller].restaurant # promotions[p].restaurant
               THEN Response("promotion_detail", caller, p, 403, SuccessFalse)
               ELSE Response("promotion_detail", caller, p, 200,
                             [result |-> promotions[p]])
    /\ UNCHANGED <<users, coupons, promotions, userCoupons, pc>>

\* get_object_or_404(Promotion, uuid=uuid, restaurant=restaurant)
ArchiveLookupPromotion(restaurant, p) ==
    PromotionExists(p) /\ promotions[p].restaurant = restaurant

\* promotion.is_archived = True; promotion.save()
ArchivedPromotion(p) == [promotions EXCEPT ![p].is_archived = TRUE]

ArchivePromotion(caller, p) ==
    /\ IF caller \notin Users
       THEN /\ resp' = Response("archive_promotion", caller, p, 404, NotFound)
            /\ UNCHANGED promotions
       ELSE IF users[caller].role \notin MerchantRoles
       THEN /\ resp' = Response("archive_promotion", caller, p, 403, SuccessFalse)
            /\ UNCHANGED promotions
       ELSE IF users[caller].restaurant = NoRestaurant
       THEN /\ resp' = Response("archive_promotion", caller, p, 400, SuccessFalse)
            /\ UNCHANGED promotions
       ELSE IF ~ArchiveLookupPromotion(users[caller].restaurant, p)
       THEN /\ resp' = Response("archive_promotion", caller, p, 404, NotFound)
            /\ UNCHANGED promotions
       ELSE /\ promotions' = ArchivedPromotion(p)
            /\ resp' = Response("archive_promotion", caller, p, 200, SuccessTrue)
    /\ UNCHANGED <<users, coupons, userCoupons, pc>>

----------------------------------------------------------------------------
(* Specifications *)

UserRecords(rs) ==
    [role : Roles, is_vip : BOOLEAN, restaurant : rs]

\* u1 is any user, with restaurant r1 or none; u2 is the merchant who owns
\* r2.  The tables start empty.
Init ==
    /\ users \in [Users -> UserRecords(Restaurants \cup {NoRestaurant})]
    /\ users["u1"].restaurant \in {"r1", NoRestaurant}
    /\ users["u2"] = [role |-> "merchant", is_vip |-> FALSE, restaurant |-> "r2"]
    /\ coupons = <<>>
    /\ promotions = <<>>
    /\ userCoupons = EmptyBag
    /\ resp = NoResponse
    /\ pc = [p \in Procs |-> Idle]

\* is_vip is read by none of the interleaved handlers
InitConc == Init /\ ~users["u1"].is_vip

\* the requests that leave every User row alone
NextStable ==
    \/ \E caller \in Callers, valid \in BOOLEAN : CreateCoupon(caller, valid)
    \/ \E caller \in Callers, c \in CouponIds : ClaimCoupon(caller, c)
    \/ \E caller \in Callers, valid \in BOOLEAN : CreatePromotion(caller, valid)
    \/ \E caller \in Callers : Dashboard(caller, TRUE)
    \/ \E caller \in Callers, c \in CouponIds : CouponUsage(caller, c)
    \/ \E caller \in Callers, c \in CouponIds : CouponDetail(caller, c)
    \/ \E caller \in Callers, c \in CouponIds : ArchiveCoupon(caller, c)
    \/ \E caller \in Callers, p \in PromotionIds : PromotionDetail(caller, p)
    \/ \E caller \in Callers, p \in PromotionIds : ArchivePromotion(caller, p)

Next ==
    \/ NextStable
    \/ \E caller \in Callers : Dashboard(caller, FALSE)

NextConc ==
    \/ \E p \in Procs, caller \in Callers : CreateCouponBegin(p, caller)
    \/ \E p \in Procs, valid \in BOOLEAN : CreateCouponEnd(p, valid)
    \/ \E p \in Procs, caller \in Callers, c \in CouponIds :
           ClaimCouponBegin(p, caller, c)
    \/ \E p \in Procs : ClaimCouponEnd(p)

Spec == Init /\ [][Next]_vars

SpecStable == Init /\ [][NextStable]_vars

SpecConc == InitConc /\ [][NextConc]_vars

----------------------------------------------------------------------------
(* Vocabulary of the properties *)

\* the creation quota the specification gives a role: 1, or 3 for a VIP
QuotaOf(isVip) == IF isVip THEN 3 ELSE 1

\* u is a merchant or vip_merchant with a bound restaurant
BoundMerchant(u) ==
    /\ users[u].role \in MerchantRoles
    /\ users[u].restaurant # NoRestaurant

ActiveCouponCount(r) == Cardinality(ActiveCoupons(r))

ActivePromotionCount(r) == Cardinality(ActivePromotions(r))

\* in-flight create-coupon requests of restaurant r that passed the count check
PendingCreates(r) ==
    {p \in Procs : pc[p].at = "create_save"
                   /\ users[pc[p].caller].restaurant = r}

----------------------------------------------------------------------------
(* C1 *)

\* C1: in every reachable state, also when claim requests interleave between
\* their existence check and their insert, there is at most one UserCoupon
\* row per (user, coupon) pair.
C1_AtMostOneUserCoupon ==
    \A u \in Users, c \in 1 .. Len(coupons) : ClaimRows(u, c) <= 1

----------------------------------------------------------------------------
(* C2 *)

C2_WithinQuota ==
    \A u \in Users :
        BoundMerchant(u) =>
            ActiveCouponCount(users[u].restaurant)
                <= QuotaOf(users[u].role = "vip_merchant")

\* A step that answers a create-coupon request of u.  Below the limit, a
\* request with valid data is answered 201: a step with another answer is
\* no step of CreateCoupon(u, TRUE).
C2_CreateStep(u) ==
    LET r == users[u].restaurant
        n == ActiveCouponCount(r)
    IN  IF n >= QuotaOf(users[u].role = "vip_merchant")
        THEN /\ resp'.status = 403
             /\ coupons' = coupons
        ELSE IF resp'.status = 201
        THEN /\ Len(coupons') = Len(coupons) + 1
             /\ SubSeq(coupons', 1, Len(coupons)) = coupons
             /\ ActiveCouponCount(r)' = n + 1
        ELSE /\ ~CreateCoupon(u, TRUE)
             /\ coupons' = coupons

\* C2: with requests run one at a time and roles fixed, the active coupons
\* of a restaurant never exceed 1 (merchant owner) or 3 (vip_merchant owner);
\* a create request at the limit returns 403 and adds nothing, a valid one
\* below the limit returns 201 and adds exactly one coupon.
\* (The counts change only in steps that change the Coupon table.)
C2_CouponQuota ==
    [][/\ coupons' # coupons => C2_WithinQuota'
       /\ resp'.op = "create_coupon" =>
              /\ C2_WithinQuota
              /\ \A u \in Users :
                     (resp'.caller = u /\ BoundMerchant(u)) => C2_CreateStep(u)]_vars

\* the 4th create request of a vip_merchant has just been refused
C2_Witness ==
    /\ resp.op = "create_coupon"
    /\ resp.status = 403
    /\ resp.caller \in Users
    /\ users[resp.caller].role = "vip_merchant"
    /\ ActiveCouponCount(users[resp.caller].restaurant) = 3

----------------------------------------------------------------------------
(* C3 *)

----------------------------------------------------------------------------
(* C4 *)

\* Every handler of Spec answers its request in resp: resp' names the
\* operation, caller and target of the step taken.

C4_FlagsStay ==
    /\ coupons' # coupons =>
           \A i \in 1 .. Len(coupons) :
               coupons[i].is_archived =>
                   i <= Len(coupons') /\ coupons'[i].is_archived
    /\ promotions' # promotions =>
           \A i \in 1 .. Len(promotions) :
               promotions[i].is_archived =>
                   i <= Len(promotions') /\ promotions'[i].is_archived

C4_ClaimOnArchived ==
    (/\ resp'.op = "claim"
     /\ CouponExists(resp'.target)
     /\ coupons[resp'.target].is_archived)
        => /\ resp'.status = 404
           /\ userCoupons' = userCoupons

\* C4: no request sets an is_archived flag back to false, and every claim
\* request on an archived coupon returns 404 and creates no UserCoupon.
C4_ArchiveOneWay == [][C4_FlagsStay /\ C4_ClaimOnArchived]_vars

\* a claim on an archived coupon has just been answered 404
C4_Witness ==
    /\ resp.op = "claim"
    /\ resp.caller \in Users
    /\ CouponExists(resp.target)
    /\ coupons[resp.target].is_archived
    /\ resp.status = 404

----------------------------------------------------------------------------
(* C5 *)

C5_ClaimStep(u, c) ==
    IF ClaimRows(u, c) = 0
    THEN /\ resp'.status = 201
         /\ resp'.body = SuccessTrue
         /\ ClaimRows(u, c)' = 1
    ELSE /\ resp'.status = 200
         /\ resp'.body = SuccessFalse
         /\ ClaimRows(u, c) = 1
         /\ ClaimRows(u, c)' = 1

\* C5: with requests run one at a time, a claim by a user of a non-archived
\* coupon they hold no row for returns 201, success=true and leaves exactly
\* one row for the pair; a claim of one they already hold returns 200,
\* success=false and the pair still has exactly one row.
C5_ClaimTwice ==
    [][resp'.op = "claim" =>
          \A u \in Users, c \in 1 .. Len(coupons) :
              (/\ resp'.caller = u
               /\ resp'.target = c
               /\ ~coupons[c].is_archived)
                  => C5_ClaimStep(u, c)]_vars

\* the second claim of a pair has just been answered
C5_Witness ==
    /\ resp.op = "claim"
    /\ resp.status = 200
    /\ resp.body = SuccessFalse
    /\ ClaimRows(resp.caller, resp.target) = 1

----------------------------------------------------------------------------
(* C6 *)

\* C6: the promotion limit is 3 when role = vip_merchant or is_vip, 1
\* otherwise; a limit denial embeds that number and the label that matches
\* it: the VIP label whenever the limit is 3, the general label whenever 1.
C6_LimitLabel ==
    (/\ resp.op = "create_promotion"
     /\ resp.status = 400
     /\ resp.body # SuccessFalse)
        => LET user == users[resp.caller]
               limit == QuotaOf(user.role = "vip_merchant" \/ user.is_vip)
           IN  /\ resp.body.limit = limit
               /\ resp.body.role_display
                      = IF limit = 3 THEN LabelVip ELSE LabelGeneral

----------------------------------------------------------------------------
(* C7 *)

\* C7: for every merchant / vip_merchant with a bound restaurant, the
\* dashboard's is_coupon_limit_reached is true exactly when a create-coupon
\* request of that user would be refused for the limit, and its
\* is_promotion_limit_reached exactly when a create-promotion would be.
C7_DashboardInSync ==
    (resp.op = "dashboard" /\ resp.status = 200)
        => LET user == users[resp.caller]
           IN  /\ resp.body.is_coupon_limit_reached
                      = CouponLimitReached(user)
               /\ resp.body.is_promotion_limit_reached
                      = PromotionLimitReached(user)

----------------------------------------------------------------------------
(* C8 *)

\* the answers a create endpoint gives for reasons other than a missing
\* restaurant
C8_OtherOutcomes(op) ==
    IF op = "create_coupon"
    THEN {<<403, SuccessFalse>>, <<400, SuccessFalse>>}
    ELSE {<<403, [error |-> ErrRoleForbidden]>>, <<400, SuccessFalse>>}

\* C8: create-coupon and create-promotion refuse a caller with a wrong role
\* with the role-forbidden answer, and refuse a merchant / vip_merchant with
\* no bound restaurant with an answer of its own; neither persists a row.
C8_CreateGuards ==
    (resp.op \in {"create_coupon", "create_promotion"} /\ resp.caller \in Users)
        => LET user == users[resp.caller]
           IN  /\ user.role \notin MerchantRoles =>
                      /\ resp.status = 403
                      /\ resp.body = IF resp.op = "create_coupon"
                                     THEN SuccessFalse
                                     ELSE [error |-> ErrRoleForbidden]
               /\ (user.role \in MerchantRoles
                   /\ user.restaurant = NoRestaurant) =>
                      /\ resp.status \in 400 .. 499
                      /\ <<resp.status, resp.body>> \notin C8_OtherOutcomes(resp.op)

----------------------------------------------------------------------------
(* C9 *)

\* caller owns a restaurant other than r
C9_OwnsAnother(caller, r) ==
    /\ BoundMerchant(caller)
    /\ users[caller].restaurant # r

C9_Archive ==
    /\ (/\ resp'.op = "archive_coupon"
        /\ resp'.caller \in Users
        /\ CouponExists(resp'.target)
        /\ C9_OwnsAnother(resp'.caller, coupons[resp'.target].restaurant))
           => resp'.status = 404 /\ coupons' = coupons
    /\ (/\ resp'.op = "archive_promotion"
        /\ resp'.caller \in Users
        /\ PromotionExists(resp'.target)
        /\ C9_OwnsAnother(resp'.caller, promotions[resp'.target].restaurant))
           => resp'.status = 404 /\ promotions' = promotions

C9_Read ==
    /\ (/\ resp'.op \in {"coupon_detail", "coupon_usage"}
        /\ resp'.caller \in Users
        /\ CouponExists(resp'.target)
        /\ resp'.op = "coupon_detail" => ~coupons[resp'.target].is_archived
        /\ users[resp'.caller].restaurant # coupons[resp'.target].restaurant)
           => resp'.status = 403
    /\ (/\ resp'.op = "promotion_detail"
        /\ resp'.caller \in Users
        /\ PromotionExists(resp'.target)
        /\ ~promotions[resp'.target].is_archived
        /\ users[resp'.caller].restaurant # promotions[resp'.target].restaurant)
           => resp'.status = 403

----------------------------------------------------------------------------
(* C10 *)

C10_Mutating ==
    {"create_coupon", "claim", "create_promotion",
     "archive_coupon", "archive_promotion"}

C10_ReadOnly == {"coupon_detail", "promotion_detail", "coupon_usage"}

\* table t' is table t with row i archived and nothing else changed
C10_OnlyArchived(t, i) ==
    /\ i \in 1 .. Len(t)
    /\ Len(t') = Len(t)
    /\ \A j \in 1 .. Len(t) :
           t'[j] = IF j = i THEN [t[j] EXCEPT !.is_archived = TRUE] ELSE t[j]

C10_Step ==
    /\ (resp'.op \in C10_Mutating /\ resp'.status \notin {200, 201})
           => db' = db
    /\ resp'.op \in C10_ReadOnly => db' = db
    /\ (resp'.op = "archive_coupon" /\ resp'.status = 200)
           => /\ C10_OnlyArchived(coupons, resp'.target)
              /\ promotions' = promotions
              /\ userCoupons' = userCoupons
    /\ (resp'.op = "archive_promotion" /\ resp'.status = 200)
           => /\ C10_OnlyArchived(promotions, resp'.target)
              /\ coupons' = coupons
              /\ userCoupons' = userCoupons

\* C10: a refused request on a mutating endpoint, and every detail and usage
\* request, leaves all Coupon, Promotion and UserCoupon rows and flags as
\* they were; a successful archive changes only the is_archived flag of its
\* target and removes no UserCoupon row.
C10_Frame == [][C10_Step]_vars

\* a claimed coupon has just been archived next to another active coupon,
\* and its UserCoupon row is still there
C10_Witness ==
    /\ resp.op = "archive_coupon"
    /\ resp.status = 200
    /\ TotalClaimed(resp.target) > 0
    /\ \E i \in 1 .. Len(coupons) : ~coupons[i].is_archived

====
